---- MODULE Spec2Model ----
(***************************************************************************)
(* Model of the two dashboard scripts of the repository.                   *)
(*                                                                         *)
(*   g.py   title, read Budget.csv, show the table                         *)
(*   ga.py  load_and_clean_data (cached), sidebar selectors, filtered      *)
(*          view, key metrics, trend / breakdown / raw-data tabs           *)
(*                                                                         *)
(* Text is a sequence of one-character strings, so that splitting and      *)
(* parsing are computed and not assumed.  A float is a record              *)
(* [nan, v]: nan = TRUE is NaN, otherwise v is the value.  A cell of an    *)
(* object column is [kind, s, v] with kind "str", "num" or "nan".          *)
(* Column names of the CSV are shortened to record fields:                 *)
(*   Ministry = 'Ministry Name'     Year = 'Year'                          *)
(*   RevP = 'Revenue (Plan)'        CapP = 'Capital (Plan)'                *)
(*   TotP = 'Total (Plan)'          RevN = 'Revenue (Non-Plan)'            *)
(*   CapN = 'Capital (Non-Plan)'    TotN = 'Total (Non-Plan)'              *)
(*   Tot  = 'Total Plan & Non-Plan' StartYear = 'Start Year'               *)
(*   TotalBudget = 'Total Budget (INR Cr)'                                 *)
(***************************************************************************)
EXTENDS Integers, Sequences, FiniteSets, TLC

VARIABLES
    script,            \* which script runs: "g" or "ga"
    file,              \* Budget.csv: [status, rows]
    cache,             \* st.cache_data entry of load_and_clean_data
    exc,               \* exception raised by the load of this pass
    df,                \* the table bound to df in this pass
    all_ministries,    \* options of the ministry selectbox
    all_years,         \* options of the year selectbox
    selected_ministry, \* value of the ministry selectbox
    selected_year,     \* value of the year selectbox
    df_filtered,       \* the filtered view
    out,               \* elements emitted in this pass, in order
    pc,                \* position of the script in this pass
    prev               \* what the previous completed pass showed

vars == <<script, file, cache, exc, df, all_ministries, all_years,
          selected_ministry, selected_year, df_filtered, out, pc, prev>>

(***************************************************************************)
(* Bounds of the model.                                                    *)
(***************************************************************************)
MaxRows == 3
MaxYearLen == 3

(***************************************************************************)
(* Sequences and text.                                                     *)
(***************************************************************************)
Range(s) == {s[i] : i \in 1..Len(s)}

Digits == {"0", "1", "2", "3", "4", "5", "6", "7", "8", "9"}

DigitVal(c) ==
    CASE c = "0" -> 0 [] c = "1" -> 1 [] c = "2" -> 2 [] c = "3" -> 3
      [] c = "4" -> 4 [] c = "5" -> 5 [] c = "6" -> 6 [] c = "7" -> 7
      [] c = "8" -> 8 [] c = "9" -> 9

RECURSIVE DigitsValue(_)
DigitsValue(s) ==
    IF s = <<>> THEN 0
    ELSE 10 * DigitsValue(SubSeq(s, 1, Len(s) - 1)) + DigitVal(s[Len(s)])

DigitText == [d \in 0..9 |->
    CHOOSE c \in Digits : DigitVal(c) = d]

AllDigits(s) == s # <<>> /\ \A i \in 1..Len(s) : s[i] \in Digits

\* x.split('-')[0]: the text before the first '-', the whole text without one
RECURSIVE SplitFirst(_)
SplitFirst(s) ==
    IF s = <<>> THEN <<>>
    ELSE IF Head(s) = "-" THEN <<>>
    ELSE <<Head(s)>> \o SplitFirst(Tail(s))

\* int(text): [ok, v]; ok = FALSE is ValueError
ParseInt(s) ==
    IF AllDigits(s) THEN [ok |-> TRUE, v |-> DigitsValue(s)]
    ELSE [ok |-> FALSE, v |-> 0]

(***************************************************************************)
(* Floats and cells.                                                       *)
(***************************************************************************)
NaN == [nan |-> TRUE, v |-> 0]
Float(n) == [nan |-> FALSE, v |-> n]

StrCell(s) == [kind |-> "str", s |-> s, v |-> 0]
NumCell(n) == [kind |-> "num", s |-> <<>>, v |-> n]
NanCell == [kind |-> "nan", s |-> <<>>, v |-> 0]

\* text that parses as a number: digits with an optional leading '-'
ParsesAsNumber(s) ==
    \/ AllDigits(s)
    \/ Len(s) > 1 /\ Head(s) = "-" /\ AllDigits(Tail(s))

NumberOf(s) == IF Head(s) = "-" THEN 0 - DigitsValue(Tail(s)) ELSE DigitsValue(s)

\* the values pd.read_csv reads as missing by default (those of the alphabet)
NaValues == {<<>>, <<"N", "A">>}

\* pd.read_csv on one field of a column that holds text
ReadCell(s) == IF s \in NaValues THEN NanCell ELSE StrCell(s)

(***************************************************************************)
(* load_and_clean_data.                                                    *)
(***************************************************************************)
finance_cols == <<"RevP", "CapP", "TotP", "RevN", "CapN", "TotN", "Tot">>

\* pd.read_csv infers a column's type from all its fields: a column whose
\* fields are all numbers or missing is numeric, any other column holds text
ColumnIsNumeric(rows, col) ==
    \A i \in 1..Len(rows) :
        rows[i][col] \in NaValues \/ ParsesAsNumber(rows[i][col])

ReadField(rows, col, i) ==
    IF ColumnIsNumeric(rows, col)
    THEN IF rows[i][col] \in NaValues THEN NanCell
         ELSE NumCell(NumberOf(rows[i][col]))
    ELSE ReadCell(rows[i][col])

\* the table pd.read_csv returns for the rows of a readable file
ReadCsv(rows) ==
    [i \in 1..Len(rows) |->
        [c \in DOMAIN rows[i] |->
            IF c = "Ministry" THEN rows[i][c] ELSE ReadField(rows, c, i)]]

\* df[col].replace({'-': np.nan, 'NA': np.nan})
Replace(cell) ==
    IF cell.kind = "str" /\ cell.s \in {<<"-">>, <<"N", "A">>} THEN NanCell
    ELSE cell

\* pd.to_numeric(cell, errors='coerce')
ToNumeric(cell) ==
    CASE cell.kind = "num" -> Float(cell.v)
      [] cell.kind = "nan" -> NaN
      [] cell.kind = "str" ->
            IF ParsesAsNumber(cell.s) THEN Float(NumberOf(cell.s)) ELSE NaN

FillNaMissing(x) == x

\* .fillna(0)
FillNa(x) == IF x.nan THEN Float(0) ELSE x

CleanCell(cell) == FillNa(ToNumeric(Replace(cell)))

\* the loop over finance_cols, on one row
CleanFinance(row) ==
    [c \in DOMAIN row |->
        IF c \in Range(finance_cols) THEN CleanCell(row[c]) ELSE row[c]]

\* lambda x: int(x.split('-')[0]) on one cell of the Year column:
\* a cell that is not text has no split (AttributeError), int() of the
\* text before the first '-' may fail (ValueError)
StartYearOf(cell) ==
    IF cell.kind # "str" THEN [exc |-> "AttributeError", v |-> 0]
    ELSE IF ParseInt(SplitFirst(cell.s)).ok
         THEN [exc |-> "none", v |-> ParseInt(SplitFirst(cell.s)).v]
         ELSE [exc |-> "ValueError", v |-> 0]

\* the first row whose Year fails, 0 when none does
FirstBadYear(t) ==
    IF \E i \in 1..Len(t) : StartYearOf(t[i].Year).exc # "none"
    THEN CHOOSE i \in 1..Len(t) :
            /\ StartYearOf(t[i].Year).exc # "none"
            /\ \A j \in 1..(i - 1) : StartYearOf(t[j].Year).exc = "none"
    ELSE 0

\* the cleaned row: finance columns numeric, Start Year and Total Budget added
CleanRow(row) ==
    [c \in DOMAIN row \cup {"StartYear", "TotalBudget"} |->
        CASE c = "StartYear" -> StartYearOf(row.Year).v
          [] c = "TotalBudget" -> CleanFinance(row).Tot
          [] OTHER -> CleanFinance(row)[c]]

\* load_and_clean_data(file_path) without the cache: the exception it
\* raises ("none" when it returns) and the table it returns
load_and_clean_data(f) ==
    CASE f.status = "missing" -> [exc |-> "FileNotFoundError", df |-> <<>>]
      [] f.status = "unparsable" -> [exc |-> "ParserError", df |-> <<>>]
      [] OTHER ->
            LET t == ReadCsv(f.rows)
                bad == FirstBadYear(t)
            IN IF bad # 0
               THEN [exc |-> StartYearOf(t[bad].Year).exc, df |-> <<>>]
               ELSE [exc |-> "none", df |-> [i \in 1..Len(t) |-> CleanRow(t[i])]]

(***************************************************************************)
(* Selectors.  The sentinel 'All Years' is a string among integers; the    *)
(* options of the year selector are tagged so the two kinds never mix.     *)
(***************************************************************************)
AllMinistries == "All Ministries"
AllYears == [all |-> TRUE, value |-> 0]
YearOption(y) == [all |-> FALSE, value |-> y]

\* the ministry names of the model, in the order sorted() gives them
MinistryNames == <<"Defence", "Health">>

RECURSIVE SortedInts(_)
SortedInts(S) ==
    IF S = {} THEN <<>>
    ELSE LET m == CHOOSE x \in S : \A y \in S : x <= y
         IN <<m>> \o SortedInts(S \ {m})

\* ['All Ministries'] + sorted(df['Ministry Name'].unique().tolist())
MinistryOptions(t) ==
    <<AllMinistries>> \o
    SelectSeq(MinistryNames, LAMBDA m : \E i \in 1..Len(t) : t[i].Ministry = m)

\* ['All Years'] + sorted(df['Start Year'].unique().tolist())
YearOptions(t) ==
    LET ys == SortedInts({t[i].StartYear : i \in 1..Len(t)})
    IN <<AllYears>> \o [i \in 1..Len(ys) |-> YearOption(ys[i])]

(***************************************************************************)
(* Filter Engine.                                                          *)
(***************************************************************************)
FilterIgnoringYear(t, m, y) ==
    IF m # AllMinistries THEN SelectSeq(t, LAMBDA r : r.Ministry = m) ELSE t

\* df.copy() narrowed by the two optional equality predicates
ApplyFilters(t, m, y) ==
    LET byMinistry ==
            IF m # AllMinistries THEN SelectSeq(t, LAMBDA r : r.Ministry = m)
            ELSE t
    IN IF ~y.all THEN SelectSeq(byMinistry, LAMBDA r : r.StartYear = y.value)
       ELSE byMinistry

(***************************************************************************)
(* Aggregator.                                                             *)
(***************************************************************************)
\* Series.sum(): missing values are skipped
RECURSIVE SumCol(_, _)
SumCol(t, col) ==
    IF t = <<>> THEN 0
    ELSE (IF Head(t)[col].nan THEN 0 ELSE Head(t)[col].v) + SumCol(Tail(t), col)

\* the three key metrics of a table
Metrics(t) ==
    [total_budget |-> SumCol(t, "TotalBudget"),
     total_plan |-> SumCol(t, "TotP"),
     total_non_plan |-> SumCol(t, "TotN")]

\* df.groupby('Start Year')['Total Budget (INR Cr)'].sum().reset_index():
\* one row per group key, keys ascending
Trend(t) ==
    LET ys == SortedInts({t[i].StartYear : i \in 1..Len(t)})
    IN [i \in 1..Len(ys) |->
          [StartYear |-> ys[i],
           TotalBudget |->
               SumCol(SelectSeq(t, LAMBDA r : r.StartYear = ys[i]), "TotalBudget")]]

\* sort_values('Total Budget (INR Cr)', ascending=False): insertion into a
\* descending sequence, after the rows that are not smaller
RECURSIVE InsertDesc(_, _)
InsertDesc(r, s) ==
    IF s = <<>> THEN <<r>>
    ELSE IF Head(s).TotalBudget.v >= r.TotalBudget.v
         THEN <<Head(s)>> \o InsertDesc(r, Tail(s))
         ELSE <<r>> \o s

RECURSIVE SortDesc(_)
SortDesc(t) ==
    IF t = <<>> THEN <<>>
    ELSE InsertDesc(t[Len(t)], SortDesc(SubSeq(t, 1, Len(t) - 1)))

TopN == 10

\* .head(n)
HeadRows(t, n) == SubSeq(t, 1, IF Len(t) < n THEN Len(t) ELSE n)

\* df_filtered.sort_values(...).head(10)
YearBreakdown(t) == HeadRows(SortDesc(t), TopN)

MeltPlanOnly(t) ==
    [i \in 1..Len(t) |->
        [StartYear |-> t[i].StartYear, Type |-> "Total (Plan)", Amount |-> t[i].TotP]]

\* df_filtered[['Start Year', 'Total (Plan)', 'Total (Non-Plan)']].melt(...):
\* the rows once per value column, the value columns one after the other
Melt(t) ==
    [i \in 1..Len(t) |->
        [StartYear |-> t[i].StartYear, Type |-> "Total (Plan)", Amount |-> t[i].TotP]]
    \o
    [i \in 1..Len(t) |->
        [StartYear |-> t[i].StartYear, Type |-> "Total (Non-Plan)", Amount |-> t[i].TotN]]

(***************************************************************************)
(* Budget.csv.  A row of the file is text in every column but the          *)
(* ministry's name, which the model keeps as a string.                     *)
(***************************************************************************)
RawRow(m, y, c) ==
    [Ministry |-> m, Year |-> y,
     RevP |-> c[1], CapP |-> c[2], TotP |-> c[3],
     RevN |-> c[4], CapN |-> c[5], TotN |-> c[6], Tot |-> c[7]]

Y2015 == <<"2", "0", "1", "5", "-", "2", "0", "1", "6">>
Y2016 == <<"2", "0", "1", "6", "-", "1", "7">>
YBad == <<"F", "Y", "-", "1", "5">>

\* seven financial fields of a row, placeholders among them
FinanceA == << <<"3">>, <<"-">>, <<"3">>, <<"N", "A">>, <<"4">>, <<"4">>, <<"7">> >>
FinanceB == << <<"x">>, <<"1">>, <<"1">>, <<>>, <<"-">>, <<"-">>, <<"1", "2">> >>

RowChoices ==
    {RawRow(m, y, c) : m \in Range(MinistryNames), y \in {Y2015, Y2016},
                       c \in {FinanceA, FinanceB}}
    \cup {RawRow("Defence", YBad, FinanceA)}

RECURSIVE SeqsUpTo(_, _)
SeqsUpTo(S, n) ==
    IF n = 0 THEN {<<>>}
    ELSE LET shorter == SeqsUpTo(S, n - 1)
         IN shorter \cup {Append(t, r) : t \in shorter, r \in S}

\* a file of n rows with more than ten rows in its first year
LongTable(n) ==
    [i \in 1..n |->
        RawRow(MinistryNames[1 + (i % 2)],
               IF i <= n - 1 THEN Y2015 ELSE Y2016,
               IF i % 3 = 0 THEN FinanceB
               ELSE [k \in 1..7 |-> IF k = 7 THEN <<DigitText[i % 10]>> ELSE FinanceA[k]])]

Files ==
    {[status |-> "missing", rows |-> <<>>], [status |-> "unparsable", rows |-> <<>>]}
    \cup {[status |-> "ok", rows |-> t] : t \in SeqsUpTo(RowChoices, MaxRows)}
    \cup {[status |-> "ok", rows |-> LongTable(n)] : n \in {TopN + 1, TopN + 2}}

\* the texts a financial field takes in the cleaning runs
CellTexts == {<<"-">>, <<"N", "A">>, <<>>, <<"x">>, <<"4", "2">>}

\* the same and a negative number
SignedCellTexts == CellTexts \cup {<<"-", "3">>}

\* the texts a Year field takes in the cleaning runs
YearTexts == SeqsUpTo({"2", "-", "F"}, MaxYearLen) \cup {<<"N", "A">>, Y2015}

CleanFiles ==
    {[status |-> "ok", rows |-> <<RawRow("Defence", Y2015, c)>>] :
        c \in [1..7 -> CellTexts]}
    \cup {[status |-> "ok", rows |-> <<RawRow("Defence", y, FinanceA)>>] : y \in YearTexts}
    \cup {[status |-> "ok",
           rows |-> <<RawRow("Defence", y1, [k \in 1..7 |-> c1]),
                      RawRow("Health", y2, [k \in 1..7 |-> c2])>>] :
            y1 \in {Y2015, <<"2">>}, y2 \in {Y2016, <<"2">>, <<"F">>},
            c1 \in SignedCellTexts, c2 \in SignedCellTexts}

(***************************************************************************)
(* Elements a pass emits.                                                  *)
(***************************************************************************)
El(kind, data) == [kind |-> kind, data |-> data]

Kinds(s) == [i \in 1..Len(s) |-> s[i].kind]

OfKind(s, kind) == SelectSeq(s, LAMBDA e : e.kind = kind)

\* every class the scripts' loads can raise derives from Exception
ExceptionClasses == {"FileNotFoundError", "ParserError", "ValueError", "AttributeError"}

NoEntry == [stored |-> FALSE, value |-> <<>>]
Entry(t) == [stored |-> TRUE, value |-> t]

NoPass == [seen |-> FALSE, shown |-> <<>>]

InitOf(scripts, files) ==
    /\ script \in scripts
    /\ file \in files
    /\ cache = NoEntry
    /\ exc = "none"
    /\ df = <<>>
    /\ all_ministries = <<>>
    /\ all_years = <<>>
    /\ selected_ministry = AllMinistries
    /\ selected_year = AllYears
    /\ df_filtered = <<>>
    /\ out = <<>>
    /\ pc = "start"
    /\ prev = NoPass

\* either script on any file
Init == InitOf({"g", "ga"}, Files)

\* ga.py on the files of the cleaning runs
InitClean == InitOf({"ga"}, CleanFiles)

(***************************************************************************)
(* g.py                                                                    *)
(***************************************************************************)
\* st.title("Budget Data Viewer")
GTitle ==
    /\ script = "g" /\ pc = "start"
    /\ out' = Append(out, El("title", "Budget Data Viewer"))
    /\ pc' = "load"
    /\ UNCHANGED <<script, file, cache, exc, df, all_ministries, all_years,
                   selected_ministry, selected_year, df_filtered, prev>>

GLoadContinues ==
    /\ script = "g" /\ pc = "load"
    /\ IF file.status = "ok"
       THEN /\ df' = ReadCsv(file.rows)
            /\ exc' = "none"
            /\ out' = Append(out, El("success", "Budget.csv"))
       ELSE /\ df' = <<>>
            /\ exc' = IF file.status = "missing" THEN "FileNotFoundError" ELSE "ParserError"
            /\ out' = Append(out, El("error", exc'))
    /\ pc' = "display"
    /\ UNCHANGED <<script, file, cache, all_ministries, all_years,
                   selected_ministry, selected_year, df_filtered, prev>>

\* the try block: pd.read_csv, st.success; except FileNotFoundError: st.error,
\* st.info, st.stop(); except Exception: st.error, st.stop()
GLoad ==
    /\ script = "g" /\ pc = "load"
    /\ CASE file.status = "ok" ->
              /\ df' = ReadCsv(file.rows)
              /\ exc' = "none"
              /\ out' = Append(out, El("success", "Budget.csv"))
              /\ pc' = "display"
         [] file.status = "missing" ->
              /\ df' = df
              /\ exc' = "FileNotFoundError"
              /\ out' = out \o <<El("error", "FileNotFoundError"),
                                 El("info", "FileNotFoundError")>>
              /\ pc' = "stopped"
         [] OTHER ->
              /\ df' = df
              /\ exc' = "ParserError"
              /\ out' = Append(out, El("error", "ParserError"))
              /\ pc' = "stopped"
    /\ UNCHANGED <<script, file, cache, all_ministries, all_years,
                   selected_ministry, selected_year, df_filtered, prev>>

HeadDefault == 5

\* the headers, the row and column counts, df.head() and the whole table
GDisplay ==
    /\ script = "g" /\ pc = "display"
    /\ out' = out \o <<El("header", "1. Data Summary"),
                       El("write", Len(df)),
                       El("subheader", "First 5 Rows"),
                       El("dataframe", HeadRows(df, HeadDefault)),
                       El("header", "2. Full Dataset"),
                       El("dataframe", df)>>
    /\ pc' = "done"
    /\ UNCHANGED <<script, file, cache, exc, df, all_ministries, all_years,
                   selected_ministry, selected_year, df_filtered, prev>>

(***************************************************************************)
(* ga.py                                                                   *)
(***************************************************************************)
\* st.set_page_config(...): configures the page, emits no element
PageConfig ==
    /\ script = "ga" /\ pc = "start"
    /\ pc' = "load"
    /\ UNCHANGED <<script, file, cache, exc, df, all_ministries, all_years,
                   selected_ministry, selected_year, df_filtered, out, prev>>

\* @st.cache_data: the stored table for the path when there is one, else
\* the function's own result
CachedLoad == IF cache.stored THEN [exc |-> "none", df |-> cache.value]
              ELSE load_and_clean_data(file)

HandlesLoadErrorsOnly(e) == e \in {"FileNotFoundError", "ParserError"}

\* except Exception as e
Handles(e) == e \in ExceptionClasses

\* the try block when nothing is raised: df, the two option lists,
\* st.sidebar.success; a returned table is stored by the cache
LoadOk ==
    /\ script = "ga" /\ pc = "load"
    /\ CachedLoad.exc = "none"
    /\ df' = CachedLoad.df
    /\ cache' = Entry(CachedLoad.df)
    /\ exc' = "none"
    /\ all_ministries' = MinistryOptions(df')
    /\ all_years' = YearOptions(df')
    /\ out' = Append(out, El("sidebar.success", "Data loaded successfully!"))
    /\ pc' = "sidebar"
    /\ UNCHANGED <<script, file, selected_ministry, selected_year, df_filtered, prev>>

\* the try block when load_and_clean_data raises: a handled exception is
\* reported with st.error and the pass ends with st.stop(); one that no
\* except clause matches leaves the script
LoadFails ==
    /\ script = "ga" /\ pc = "load"
    /\ CachedLoad.exc # "none"
    /\ exc' = CachedLoad.exc
    /\ IF Handles(exc')
       THEN /\ out' = Append(out, El("error", exc'))
            /\ pc' = "stopped"
       ELSE /\ out' = out
            /\ pc' = "crashed"
    /\ UNCHANGED <<script, file, cache, df, all_ministries, all_years,
                   selected_ministry, selected_year, df_filtered, prev>>

\* the sidebar: title, rule and the two selectboxes, whose values are the
\* session's current choices
Sidebar ==
    /\ script = "ga" /\ pc = "sidebar"
    /\ out' = out \o <<El("sidebar.title", "Dashboard Filters"),
                       El("sidebar.markdown", "---"),
                       El("selectbox.ministry", all_ministries),
                       El("selectbox.year", all_years)>>
    /\ pc' = "filter"
    /\ UNCHANGED <<script, file, cache, exc, df, all_ministries, all_years,
                   selected_ministry, selected_year, df_filtered, prev>>

FilterInPlace ==
    /\ script = "ga" /\ pc = "filter"
    /\ df_filtered' = ApplyFilters(df, selected_ministry, selected_year)
    /\ df' = df_filtered'
    /\ pc' = "header"
    /\ UNCHANGED <<script, file, cache, exc, all_ministries, all_years,
                   selected_ministry, selected_year, out, prev>>

\* df_filtered = df.copy() and the two conditional narrowings
Filter ==
    /\ script = "ga" /\ pc = "filter"
    /\ df_filtered' = ApplyFilters(df, selected_ministry, selected_year)
    /\ pc' = "header"
    /\ UNCHANGED <<script, file, cache, exc, df, all_ministries, all_years,
                   selected_ministry, selected_year, out, prev>>

\* st.title and the two st.markdown lines under it
Header ==
    /\ script = "ga" /\ pc = "header"
    /\ out' = out \o <<El("title", "Indian Budget Visualizer"),
                       El("markdown", <<selected_ministry, selected_year>>),
                       El("markdown", "---")>>
    /\ pc' = "metrics"
    /\ UNCHANGED <<script, file, cache, exc, df, all_ministries, all_years,
                   selected_ministry, selected_year, df_filtered, prev>>

MetricCards(t) ==
    <<El("metric", [label |-> "Total Budget (All Time/Filtered)",
                    value |-> Metrics(t).total_budget]),
      El("metric", [label |-> "Total Plan Expenditure",
                    value |-> Metrics(t).total_plan]),
      El("metric", [label |-> "Total Non-Plan Expenditure",
                    value |-> Metrics(t).total_non_plan])>>

KeyMetricsAlways ==
    /\ script = "ga" /\ pc = "metrics"
    /\ out' = out \o MetricCards(df_filtered) \o <<El("markdown", "---")>>
    /\ pc' = "tab1"
    /\ UNCHANGED <<script, file, cache, exc, df, all_ministries, all_years,
                   selected_ministry, selected_year, df_filtered, prev>>

\* if not df_filtered.empty: the three st.metric cards; then st.markdown
KeyMetrics ==
    /\ script = "ga" /\ pc = "metrics"
    /\ out' = out \o (IF df_filtered # <<>> THEN MetricCards(df_filtered) ELSE <<>>)
                  \o <<El("markdown", "---")>>
    /\ pc' = "tab1"
    /\ UNCHANGED <<script, file, cache, exc, df, all_ministries, all_years,
                   selected_ministry, selected_year, df_filtered, prev>>

Tab1OfFilteredView ==
    /\ script = "ga" /\ pc = "tab1"
    /\ out' = out \o <<El("tabs", 3),
                       El("header", "Budget Trend Analysis"),
                       El("caption", "trend"),
                       El("chart.trend", Trend(df_filtered))>>
    /\ pc' = "tab2"
    /\ UNCHANGED <<script, file, cache, exc, df, all_ministries, all_years,
                   selected_ministry, selected_year, df_filtered, prev>>

\* st.tabs and the first tab: header, caption, the line chart of df_trend
Tab1 ==
    /\ script = "ga" /\ pc = "tab1"
    /\ out' = out \o <<El("tabs", 3),
                       El("header", "Budget Trend Analysis"),
                       El("caption", "trend"),
                       El("chart.trend", Trend(df))>>
    /\ pc' = "tab2"
    /\ UNCHANGED <<script, file, cache, exc, df, all_ministries, all_years,
                   selected_ministry, selected_year, df_filtered, prev>>

BreakdownMinistryFirst(m, y, t) ==
    IF m # AllMinistries
    THEN <<El("subheader", m), El("chart.plan_nonplan", Melt(t))>>
    ELSE IF ~y.all
         THEN <<El("subheader", y.value), El("chart.top", YearBreakdown(t))>>
         ELSE <<El("info", "Select a specific Year or Ministry")>>

\* the if / elif / else of the second tab, on the filtered view t
Breakdown(m, y, t) ==
    IF ~y.all
    THEN <<El("subheader", y.value), El("chart.top", YearBreakdown(t))>>
    ELSE IF m # AllMinistries
         THEN <<El("subheader", m), El("chart.plan_nonplan", Melt(t))>>
         ELSE <<El("info", "Select a specific Year or Ministry")>>

\* the second tab
Tab2 ==
    /\ script = "ga" /\ pc = "tab2"
    /\ out' = out \o <<El("header", "Detailed Budget Breakdown")>>
                  \o Breakdown(selected_ministry, selected_year, df_filtered)
    /\ pc' = "tab3"
    /\ UNCHANGED <<script, file, cache, exc, df, all_ministries, all_years,
                   selected_ministry, selected_year, df_filtered, prev>>

\* the third tab: header, markdown and the table df
Tab3 ==
    /\ script = "ga" /\ pc = "tab3"
    /\ out' = out \o <<El("header", "Raw Data Table"),
                       El("markdown", "The complete, cleaned dataset for inspection."),
                       El("dataframe", df)>>
    /\ pc' = "done"
    /\ UNCHANGED <<script, file, cache, exc, df, all_ministries, all_years,
                   selected_ministry, selected_year, df_filtered, prev>>

(***************************************************************************)
(* Reruns.  The framework runs the script again from its first line on     *)
(* every interaction; the cache and the widgets' values outlive the pass.  *)
(***************************************************************************)
\* what a completed pass of ga.py showed that does not depend on the filters
Shown ==
    [df |-> df,
     cache |-> cache,
     all_ministries |-> OfKind(out, "selectbox.ministry"),
     all_years |-> OfKind(out, "selectbox.year"),
     trend |-> OfKind(out, "chart.trend"),
     raw |-> OfKind(out, "dataframe")]

\* the user picks an option in each selectbox
Interact ==
    /\ script = "ga" /\ pc = "done"
    /\ \E m \in Range(all_ministries), y \in Range(all_years) :
          /\ selected_ministry' = m
          /\ selected_year' = y
    /\ prev' = [seen |-> TRUE, shown |-> Shown]
    /\ pc' = "start"
    /\ out' = <<>>
    /\ exc' = "none"
    /\ df' = <<>>
    /\ df_filtered' = <<>>
    /\ all_ministries' = <<>>
    /\ all_years' = <<>>
    /\ UNCHANGED <<script, file, cache>>

\* the page is loaded again after a pass that ended otherwise
Rerun ==
    /\ \/ script = "g" /\ pc \in {"done", "stopped"}
       \/ script = "ga" /\ pc \in {"stopped", "crashed"}
    /\ pc' = "start"
    /\ out' = <<>>
    /\ exc' = "none"
    /\ df' = <<>>
    /\ UNCHANGED <<script, file, cache, all_ministries, all_years,
                   selected_ministry, selected_year, df_filtered, prev>>

Next ==
    \/ GTitle
    \/ GLoad
    \/ GDisplay
    \/ PageConfig
    \/ LoadOk
    \/ LoadFails
    \/ Sidebar
    \/ Filter
    \/ Header
    \/ KeyMetrics
    \/ Tab1
    \/ Tab2
    \/ Tab3
    \/ Interact
    \/ Rerun

Spec == Init /\ [][Next]_vars

\* the load of ga.py alone, on files that vary every field it cleans
NextClean ==
    \/ PageConfig
    \/ LoadOk
    \/ LoadFails

SpecClean == InitClean /\ [][NextClean]_vars

(***************************************************************************)
(* Properties.                                                             *)
(***************************************************************************)
AfterLoad == script = "ga" /\ pc \in {"sidebar", "filter", "header", "metrics",
                                      "tab1", "tab2", "tab3", "done"}
AfterFilter == script = "ga" /\ pc \in {"header", "metrics", "tab1", "tab2", "tab3", "done"}
AfterMetrics == script = "ga" /\ pc \in {"tab1", "tab2", "tab3", "done"}
AfterTab1 == script = "ga" /\ pc \in {"tab2", "tab3", "done"}
AfterTab2 == script = "ga" /\ pc \in {"tab3", "done"}

Min(a, b) == IF a < b THEN a ELSE b

\* a row satisfies every active predicate of the current selection
Selected(r) ==
    /\ selected_ministry = AllMinistries \/ r.Ministry = selected_ministry
    /\ selected_year.all \/ r.StartYear = selected_year.value

\* the positions in df of the rows the selection keeps
Kept == {i \in 1..Len(df) : Selected(df[i])}

\* the k-th kept position, counting from 1
KeptAt(k) == CHOOSE i \in Kept : Cardinality({j \in Kept : j <= i}) = k

\* C1: the filtered view holds exactly the rows of the cleaned table that
\* satisfy every active predicate, in the table's order; with both selectors
\* at their sentinels it is the cleaned table; it may be empty
C1_FilteredViewExact ==
    AfterFilter =>
        /\ Len(df_filtered) = Cardinality(Kept)
        /\ \A k \in 1..Len(df_filtered) : df_filtered[k] = df[KeptAt(k)]
        /\ (selected_ministry = AllMinistries /\ selected_year.all) => df_filtered = df

C1_Witness ==
    /\ AfterFilter
    /\ selected_ministry # AllMinistries
    /\ ~selected_year.all
    /\ df_filtered # <<>>
    /\ \E i \in 1..Len(df) : df[i].Ministry = selected_ministry /\ ~Selected(df[i])
    /\ \E i \in 1..Len(df) : df[i].StartYear = selected_year.value /\ ~Selected(df[i])

\* the number a financial field of the file must clean to
CleanValue(text) ==
    IF text \in {<<"-">>, <<"N", "A">>, <<>>} THEN 0
    ELSE IF ParsesAsNumber(text) THEN NumberOf(text)
    ELSE 0

\* every Year of the file has an integer before its first '-' and the column
\* holds text
YearsWellFormed ==
    /\ \A i \in 1..Len(file.rows) : AllDigits(SplitFirst(file.rows[i].Year))
    /\ \E i \in 1..Len(file.rows) : ~ParsesAsNumber(file.rows[i].Year)

\* C2: after load_and_clean_data every cell of the seven financial columns
\* is a number and not missing: 0 for '-', 'NA', an empty field and text that
\* is no number, the field's value otherwise; no content of a financial field
\* makes the load fail
C2_FinancialCellsNumeric ==
    /\ AfterLoad =>
          /\ Len(df) = Len(file.rows)
          /\ \A i \in 1..Len(df) : \A k \in 1..Len(finance_cols) :
                /\ ~df[i][finance_cols[k]].nan
                /\ df[i][finance_cols[k]].v = CleanValue(file.rows[i][finance_cols[k]])
    /\ (script = "ga" /\ pc \notin {"start", "load"} /\ YearsWellFormed) => exc = "none"

C2_Witness ==
    /\ AfterLoad
    /\ \E k \in 1..Len(finance_cols) : file.rows[1][finance_cols[k]] = <<"-">>
    /\ \E k \in 1..Len(finance_cols) : file.rows[1][finance_cols[k]] = <<"x">>
    /\ \E k \in 1..Len(finance_cols) : file.rows[1][finance_cols[k]] = <<"4", "2">>
    /\ \E k \in 1..Len(finance_cols) : file.rows[1][finance_cols[k]] = <<>>

\* some Year of the file has no integer before its first '-'
SomeYearMalformed ==
    \E i \in 1..Len(file.rows) : ~AllDigits(SplitFirst(file.rows[i].Year))

\* C3 as stated: a Year without an integer before its first '-' makes the
\* pass end with an exception nothing catches, and no error message
C3_AsStated ==
    (script = "ga" /\ pc \notin {"start", "load"} /\ file.status = "ok" /\ SomeYearMalformed)
        => pc = "crashed" /\ OfKind(out, "error") = <<>>

\* C3 amended: a Year without an integer before its first '-' raises inside
\* the try block of ga.py, is caught by except Exception and ends the pass
\* like a missing file does: one error message, then the stop
C3_MalformedYearReported ==
    (script = "ga" /\ pc \notin {"start", "load"} /\ file.status = "ok" /\ SomeYearMalformed)
        => /\ pc = "stopped"
           /\ exc \in {"ValueError", "AttributeError"}
           /\ out = <<El("error", exc)>>
           /\ ~cache.stored

C3_Witness ==
    /\ script = "ga" /\ pc = "stopped"
    /\ SomeYearMalformed
    /\ exc = "ValueError"
    /\ Kinds(out) = <<"error">>

LoadFailed == file.status \in {"missing", "unparsable"} /\ pc \notin {"start", "load"}

\* C4 as stated: in both scripts a missing or unreadable file ends the pass
\* with nothing emitted but the error message
C4_AsStated ==
    LoadFailed =>
        /\ pc = "stopped"
        /\ OfKind(out, "error") # <<>>
        /\ \A i \in 1..Len(out) : out[i].kind \in {"error", "info"}

\* C4 amended: a missing or unreadable file ends the pass at the load with
\* an error message and no header, widget, table, metric or chart; ga.py has
\* emitted nothing before the message, g.py has emitted its title before it
C4_LoadFailureHalts ==
    LoadFailed =>
        /\ pc = "stopped"
        /\ script = "ga" => Kinds(out) = <<"error">>
        /\ script = "g" =>
              Kinds(out) = IF file.status = "missing" THEN <<"title", "error", "info">>
                           ELSE <<"title", "error">>

C4_Witness ==
    /\ script = "g" /\ pc = "stopped"
    /\ file.status = "missing"
    /\ out[1].kind = "title"

\* the data of the only element of a kind in this pass
DataOf(kind) == OfKind(out, kind)[1].data

StartYears(t) == {t[i].StartYear : i \in 1..Len(t)}

RECURSIVE SumPoints(_)
SumPoints(tr) == IF tr = <<>> THEN 0 ELSE Head(tr).TotalBudget + SumPoints(Tail(tr))

\* the sum of Total Budget over the rows of df of one year
BudgetOfYear(y) ==
    LET idx == {i \in 1..Len(df) : df[i].StartYear = y}
        RECURSIVE Add(_)
        Add(S) == IF S = {} THEN 0
                  ELSE LET i == CHOOSE j \in S : TRUE
                       IN df[i].TotalBudget.v + Add(S \ {i})
    IN Add(idx)

\* C5: the trend series is computed from the whole cleaned table whatever
\* the selection: one point per distinct Start Year, years ascending, each
\* point the sum of Total Budget over the rows of its year, the points
\* adding up to the Total Budget of the whole table
C5_TrendOfFullTable ==
    AfterTab1 =>
        /\ Len(OfKind(out, "chart.trend")) = 1
        /\ LET tr == DataOf("chart.trend")
           IN /\ Len(tr) = Cardinality(StartYears(df))
              /\ {tr[i].StartYear : i \in 1..Len(tr)} = StartYears(df)
              /\ \A i \in 1..(Len(tr) - 1) : tr[i].StartYear < tr[i + 1].StartYear
              /\ \A i \in 1..Len(tr) : tr[i].TotalBudget = BudgetOfYear(tr[i].StartYear)
              /\ SumPoints(tr) = SumCol(df, "TotalBudget")
              /\ prev.seen => OfKind(out, "chart.trend") = prev.shown.trend

C5_Witness ==
    /\ AfterTab1
    /\ prev.seen
    /\ Len(df_filtered) < Len(df)
    /\ df_filtered # <<>>
    /\ Len(DataOf("chart.trend")) > 1
    /\ Len(df) > Len(DataOf("chart.trend"))

\* the rows of the cleaned table of the selected year
YearTable == SelectSeq(df, LAMBDA r : r.StartYear = selected_year.value)

\* C6 as stated: with a year selected, whatever the ministry selector is,
\* the breakdown has min(10, rows of the year) rows, descending by Total
\* Budget, and no row of the year it leaves out exceeds a row it shows
C6_AsStated ==
    (AfterTab2 /\ ~selected_year.all) =>
        /\ Len(OfKind(out, "chart.top")) = 1
        /\ LET top == DataOf("chart.top")
           IN /\ Len(top) = Min(TopN, Len(YearTable))
              /\ \A i \in 1..(Len(top) - 1) :
                    top[i].TotalBudget.v >= top[i + 1].TotalBudget.v
              /\ \A i \in 1..Len(YearTable) :
                    YearTable[i] \notin Range(top) =>
                        \A k \in 1..Len(top) :
                            YearTable[i].TotalBudget.v <= top[k].TotalBudget.v

\* C7 as stated: with a ministry selected and all years, the plan/non-plan
\* series has exactly one row for each Start Year of the ministry and each
\* of the two categories
C7_AsStated ==
    (AfterTab2 /\ selected_year.all /\ selected_ministry # AllMinistries) =>
        /\ Len(OfKind(out, "chart.plan_nonplan")) = 1
        /\ LET pn == DataOf("chart.plan_nonplan")
           IN /\ Len(pn) = 2 * Cardinality(StartYears(df_filtered))
              /\ \A y \in StartYears(df_filtered) :
                    \A c \in {"Total (Plan)", "Total (Non-Plan)"} :
                        Cardinality({k \in 1..Len(pn) :
                            pn[k].StartYear = y /\ pn[k].Type = c}) = 1

\* C7 amended: the series has one row for each row of the ministry's view
\* and each of the two categories, first every row's Total (Plan), then
\* every row's Total (Non-Plan); there is one row per (Start Year, category)
\* exactly when the ministry's rows have distinct Start Years
C7_TwoRowsPerViewRow ==
    (AfterTab2 /\ selected_year.all /\ selected_ministry # AllMinistries) =>
        /\ Len(OfKind(out, "chart.plan_nonplan")) = 1
        /\ LET pn == DataOf("chart.plan_nonplan")
               n == Len(df_filtered)
           IN /\ Len(pn) = 2 * n
              /\ \A i \in 1..n :
                    /\ pn[i] = [StartYear |-> df_filtered[i].StartYear,
                                Type |-> "Total (Plan)",
                                Amount |-> df_filtered[i].TotP]
                    /\ pn[n + i] = [StartYear |-> df_filtered[i].StartYear,
                                    Type |-> "Total (Non-Plan)",
                                    Amount |-> df_filtered[i].TotN]
              /\ (Cardinality(StartYears(df_filtered)) = n) <=>
                    \A y \in StartYears(df_filtered) :
                        \A c \in {"Total (Plan)", "Total (Non-Plan)"} :
                            Cardinality({k \in 1..Len(pn) :
                                pn[k].StartYear = y /\ pn[k].Type = c}) = 1

C7_Witness ==
    /\ AfterTab2 /\ selected_year.all /\ selected_ministry # AllMinistries
    /\ Len(df_filtered) < Len(df)
    /\ \E i, j \in 1..Len(df_filtered) : i # j /\ df_filtered[i].Year = df_filtered[j].Year
    /\ Len(DataOf("chart.plan_nonplan")) > 2

\* C8: the three metrics are shown exactly when the filtered view has rows,
\* and are its sums of Total Budget, Total (Plan) and Total (Non-Plan); on an
\* empty view they are skipped and the pass goes on to its end
C8_MetricsIffNonEmpty ==
    /\ AfterMetrics =>
          /\ (OfKind(out, "metric") # <<>>) <=> (df_filtered # <<>>)
          /\ df_filtered # <<>> =>
                /\ Len(OfKind(out, "metric")) = 3
                /\ OfKind(out, "metric")[1].data.value = SumCol(df_filtered, "TotalBudget")
                /\ OfKind(out, "metric")[2].data.value = SumCol(df_filtered, "TotP")
                /\ OfKind(out, "metric")[3].data.value = SumCol(df_filtered, "TotN")
    /\ (AfterFilter /\ df_filtered = <<>>) => (pc = "done" \/ ENABLED Next)
    /\ script = "ga" => pc # "crashed"

C8_Witness ==
    /\ script = "ga" /\ pc = "done"
    /\ df # <<>>
    /\ df_filtered = <<>>
    /\ OfKind(out, "metric") = <<>>
    /\ OfKind(out, "chart.trend") # <<>>
    /\ DataOf("chart.top") = <<>>

BreakdownKinds == {"chart.top", "chart.plan_nonplan", "info"}

\* C9: a pass produces exactly one breakdown: the top-10 bars when a year is
\* selected, with or without a ministry; the plan / non-plan series when a
\* ministry is selected and all years; the message alone when neither is
C9_OneBreakdownMode ==
    AfterTab2 =>
        /\ Cardinality({i \in 1..Len(out) : out[i].kind \in BreakdownKinds}) = 1
        /\ ~selected_year.all => OfKind(out, "chart.top") # <<>>
        /\ (selected_year.all /\ selected_ministry # AllMinistries)
              => OfKind(out, "chart.plan_nonplan") # <<>>
        /\ (selected_year.all /\ selected_ministry = AllMinistries)
              => OfKind(out, "info") # <<>>

C9_Witness ==
    /\ AfterTab2
    /\ ~selected_year.all /\ selected_ministry # AllMinistries
    /\ OfKind(out, "chart.top") # <<>>
    /\ OfKind(out, "chart.plan_nonplan") = <<>>

\* C10: over any sequence of filter changes the cleaned table is the one
\* the cache holds, the cache entry never changes, and a completed pass shows
\* the same option lists, trend series and raw table as the pass before it
C10_CleanedTableFrozen ==
    /\ AfterLoad => cache.stored /\ df = cache.value
    /\ (script = "ga" /\ prev.seen) => cache = prev.shown.cache
    /\ (script = "ga" /\ prev.seen /\ pc = "done") => Shown = prev.shown
    /\ (script = "ga" /\ pc = "done") =>
          /\ DataOf("selectbox.ministry") = MinistryOptions(cache.value)
          /\ DataOf("selectbox.year") = YearOptions(cache.value)
          /\ Len(OfKind(out, "dataframe")) = 1
          /\ DataOf("dataframe") = cache.value

C10_Witness ==
    /\ script = "ga" /\ pc = "done" /\ prev.seen
    /\ selected_ministry # AllMinistries
    /\ Len(df_filtered) < Len(df)
    /\ Len(all_years) > 2

====
